---- MODULE Spec2Model ----
(***************************************************************************)
(* Merkle-tree membership authentication: the MerkleTree class, the        *)
(* ZKProofSystem registry built on it, and the asynchronous interleaving   *)
(* of the registry's operations at their await points.                     *)
(*                                                                         *)
(* Strings are sequences of atoms.  An atom is a block of hexadecimal      *)
(* characters that the program never takes apart: a generated public key,  *)
(* a generated salt, a SHA-256 digest (which remembers the string it was   *)
(* computed from, so that the digest is collision free), or a literal.     *)
(* JavaScript's + on strings is concatenation of the sequences.            *)
(***************************************************************************)
EXTENDS Integers, Sequences, FiniteSets, TLC

\* ------------------------------------------------------------------ bounds
\* Distinct public keys available to a caller of buildTree.
NumKeys == 3
\* Longest key sequence handed to buildTree directly.
MaxKeys == 4
\* Largest accepted userCount passed to initializeSystem.
MaxUsers == 3
\* initializeSystem calls that get past the range check in one behaviour.
MaxInits == 2
\* Distinct values generateSalt may return.
NumSalts == 1
\* buildTree calls made on one MerkleTree object.
MaxBuilds == 2

\* ------------------------------------------------------- program constants
MinUserCount == 2
MaxUserCount == 32
\* maxAge = 5 * 60 * 1000 milliseconds.
MaxAge == 300000

\* ------------------------------------------------------- strings and hashes
Atom(t, n, a) == [t |-> t, n |-> n, a |-> a]

\* The n-th value produced by CryptoUtils.generatePublicKey (64 hex characters).
PublicKeyOf(n) == <<Atom("key", n, <<>>)>>

\* The value null in a place that otherwise holds a string.
JSNull == <<Atom("JSnull", 0, <<>>)>>

\* String conversion applied by + to an operand: null becomes "null".
Str(v) == IF v = JSNull THEN <<Atom("null", 0, <<>>)>> ELSE v

\* a + b on strings.
Concat(a, b) == Str(a) \o Str(b)

sha256(data) == <<Atom("sha256", 0, data)>>

generateUserId(publicKey) == sha256(publicKey)

\* A combineHashes that hashes right + left.
combineHashesSwapped(left, right) == sha256(Concat(right, left))

combineHashes(left, right) == sha256(Concat(left, right))

\* A 64-character string that is the hash of nothing in the system.
BadHash == <<Atom("bad", 0, <<>>)>>

\* ------------------------------------------------------------- MerkleTree
\* data of a node that is no leaf (null in the program).
NoData == [publicKey |-> JSNull, index |-> -1]

MerkleTreeNode(hash, left, right, isLeaf, data) ==
    [hash |-> hash, left |-> left, right |-> right, isLeaf |-> isLeaf, data |-> data]

\* A MerkleTree object.  heap holds the MerkleTreeNode objects created on behalf of
\* this tree; a node reference is its position in heap, 0 is null.  nodes is the
\* Map from hash to node, as its entries in insertion order.
NewMerkleTree == [root |-> 0, leaves |-> <<>>, nodes |-> <<>>, heap |-> <<>>]

\* Map.prototype.set: an existing key keeps its position and takes the new value.
MapSet(m, k, v) ==
    IF \E j \in 1..Len(m) : m[j].key = k
    THEN [j \in 1..Len(m) |-> IF m[j].key = k THEN [key |-> k, val |-> v] ELSE m[j]]
    ELSE Append(m, [key |-> k, val |-> v])

\* The call state of buildTree / _buildTreeRecursive while it is suspended in an
\* await: pc says which await ("leaf": generateUserId of publicKeys[i]; "pair":
\* combineHashes of nodes[i], nodes[i+1]), aliased says that the nodes parameter is
\* the array this.leaves itself (the outermost call).
BuildFrame(pc, i, publicKeys, nodes, nextLevel, aliased) ==
    [pc |-> pc, i |-> i, publicKeys |-> publicKeys, nodes |-> nodes,
     nextLevel |-> nextLevel, aliased |-> aliased]

DoneFrame == BuildFrame("done", 0, <<>>, <<>>, <<>>, FALSE)

\* _buildTreeRecursive(nodes) up to its first await, or to its return when one node
\* is left (the awaits of the returning calls resolve in the same microtask run, so
\* the assignment this.root = ... of buildTree belongs to the same step).
EnterRecursive(t, publicKeys, nodes, aliased) ==
    IF Len(nodes) = 1
    THEN [tree |-> [t EXCEPT !.root = nodes[1]], frame |-> DoneFrame]
    ELSE LET padded == IF Len(nodes) % 2 = 1 THEN Append(nodes, nodes[Len(nodes)])
                       ELSE nodes
         IN  [tree  |-> IF aliased THEN [t EXCEPT !.leaves = padded] ELSE t,
              frame |-> BuildFrame("pair", 1, publicKeys, padded, <<>>, aliased)]

\* A buildTree that goes on with the leaves the object already has.
BuildStartKeepsLeaves(t, publicKeys) ==
    [tree  |-> t,
     frame |-> BuildFrame("leaf", 1, publicKeys, <<>>, <<>>, TRUE)]

\* buildTree up to its first await (publicKeys is not empty).
BuildStart(t, publicKeys) ==
    [tree  |-> [t EXCEPT !.leaves = <<>>],
     frame |-> BuildFrame("leaf", 1, publicKeys, <<>>, <<>>, TRUE)]

\* buildTree resumed after the await of generateUserId(publicKeys[i]).
LeafStep(t, f) ==
    LET hash == generateUserId(f.publicKeys[f.i])
        ref  == Len(t.heap) + 1
        leaf == MerkleTreeNode(hash, 0, 0, TRUE,
                               [publicKey |-> f.publicKeys[f.i], index |-> f.i - 1])
        t1   == [t EXCEPT !.heap = Append(@, leaf),
                          !.leaves = Append(@, ref),
                          !.nodes = MapSet(@, hash, ref)]
    IN  IF f.i < Len(f.publicKeys)
        THEN [tree |-> t1, frame |-> [f EXCEPT !.i = @ + 1]]
        ELSE EnterRecursive(t1, f.publicKeys, t1.leaves, TRUE)

\* _buildTreeRecursive resumed after the await of combineHashes(left.hash, right.hash).
PairStep(t, f) ==
    LET left   == f.nodes[f.i]
        right  == f.nodes[f.i + 1]
        combinedHash == combineHashes(t.heap[left].hash, t.heap[right].hash)
        ref    == Len(t.heap) + 1
        parent == MerkleTreeNode(combinedHash, left, right, FALSE, NoData)
        t1     == [t EXCEPT !.heap = Append(@, parent),
                            !.nodes = MapSet(@, combinedHash, ref)]
        next   == Append(f.nextLevel, ref)
    IN  IF f.i + 2 <= Len(f.nodes)
        THEN [tree |-> t1, frame |-> [f EXCEPT !.i = @ + 2, !.nextLevel = next]]
        ELSE EnterRecursive(t1, f.publicKeys, next, FALSE)

\* One resumption of a suspended build.
BuildStep(t, f) == IF f.pc = "leaf" THEN LeafStep(t, f) ELSE PairStep(t, f)

RECURSIVE RunBuild(_)
RunBuild(s) == IF s.frame.pc = "done" THEN s.tree ELSE RunBuild(BuildStep(s.tree, s.frame))

\* buildTree(publicKeys) run to completion with nothing interleaved.
buildTree(t, publicKeys) == RunBuild(BuildStart(t, publicKeys))

getRootHash(t) == IF t.root # 0 THEN t.heap[t.root].hash ELSE JSNull

\* this.leaves.find(l => l.hash === userHash): the first match, 0 when there is none.
FindLeaf(t, userHash) ==
    LET hits == {j \in 1..Len(t.leaves) : t.heap[t.leaves[j]].hash = userHash}
    IN  IF hits = {} THEN 0
        ELSE t.leaves[CHOOSE j \in hits : \A k \in hits : j <= k]

\* Whether map entry j holds a parent of node.
IsParentEntry(t, j, node) ==
    LET n == t.heap[t.nodes[j].val]
    IN  (n.left = node \/ n.right = node) /\ ~n.isLeaf

\* _findParent: the first entry of the Map, in insertion order, that is a parent.
FindParentIn(t, node) ==
    LET hits == {j \in 1..Len(t.nodes) : IsParentEntry(t, j, node)}
    IN  IF hits = {} THEN 0
        ELSE t.nodes[CHOOSE j \in hits : \A k \in hits : j <= k].val

\* The while loop of generateMembershipProof.
RECURSIVE Walk(_, _, _)
Walk(t, currentNode, path) ==
    IF currentNode = t.root THEN path
    ELSE LET parent == FindParentIn(t, currentNode)
         IN  IF parent = 0 THEN path
             ELSE LET isLeftChild == t.heap[parent].left = currentNode
                      sibling == IF isLeftChild THEN t.heap[parent].right
                                 ELSE t.heap[parent].left
                  IN  Walk(t, parent,
                           Append(path, [hash   |-> t.heap[sibling].hash,
                                         isLeft |-> ~isLeftChild,
                                         level  |-> Len(path)]))

\* generateMembershipProof after its await, for a key whose leaf is found.
generateMembershipProof(t, publicKey) ==
    LET userHash == generateUserId(publicKey)
        leaf     == FindLeaf(t, userHash)
    IN  [leafHash  |-> userHash,
         leafIndex |-> t.heap[leaf].data.index,
         path      |-> Walk(t, leaf, <<>>),
         rootHash  |-> getRootHash(t)]

\* The for loop of verifyMembershipProof from step k on.
RECURSIVE FoldPath(_, _, _)
FoldPath(path, k, currentHash) ==
    IF k > Len(path) THEN currentHash
    ELSE FoldPath(path, k + 1,
                  IF path[k].isLeft THEN combineHashes(path[k].hash, currentHash)
                  ELSE combineHashes(currentHash, path[k].hash))

\* A verifyMembershipProof that looks at the root hash alone.
verifyMembershipProofNoFold(proof) == proof.rootHash # JSNull

verifyMembershipProof(proof) ==
    FoldPath(proof.path, 1, proof.leafHash) = proof.rootHash

\* A verifyMembershipProof that also compares the proof with the root of its object.
verifyMembershipProofOnOwnRoot(t, proof) ==
    [tree |-> t,
     result |-> verifyMembershipProof(proof) /\ proof.rootHash = getRootHash(t)]

\* tree.verifyMembershipProof(proof) as a call on the object t: the object after
\* the call and the value returned.
verifyMembershipProofOn(t, proof) ==
    [tree |-> t, result |-> verifyMembershipProof(proof)]

\* _calculateHeight(node); node is a reference into t.heap, 0 is null.
RECURSIVE calculateHeight(_, _)
calculateHeight(t, node) ==
    IF node = 0 \/ t.heap[node].isLeaf THEN 1
    ELSE LET leftHeight  == IF t.heap[node].left # 0
                            THEN calculateHeight(t, t.heap[node].left) ELSE 0
             rightHeight == IF t.heap[node].right # 0
                            THEN calculateHeight(t, t.heap[node].right) ELSE 0
         IN  1 + (IF leftHeight >= rightHeight THEN leftHeight ELSE rightHeight)

\* A getTreeStats that counts the edges from the root to a leaf.
getTreeStatsEdges(t) ==
    IF t.root = 0
    THEN [totalNodes |-> 0, leafNodes |-> 0, treeHeight |-> 0, rootHash |-> JSNull]
    ELSE [totalNodes |-> Len(t.nodes),
          leafNodes  |-> Len(t.leaves),
          treeHeight |-> calculateHeight(t, t.root) - 1,
          rootHash   |-> getRootHash(t)]

getTreeStats(t) ==
    IF t.root = 0
    THEN [totalNodes |-> 0, leafNodes |-> 0, treeHeight |-> 0, rootHash |-> JSNull]
    ELSE [totalNodes |-> Len(t.nodes),
          leafNodes  |-> Len(t.leaves),
          treeHeight |-> calculateHeight(t, t.root),
          rootHash   |-> getRootHash(t)]

\* getLeafNodes() without the truncated hash, which is for display.
getLeafNodes(t) ==
    [j \in 1..Len(t.leaves) |->
        [hash      |-> t.heap[t.leaves[j]].hash,
         publicKey |-> t.heap[t.leaves[j]].data.publicKey,
         index     |-> t.heap[t.leaves[j]].data.index]]

\* ------------------------------------------------------------------ state
VARIABLES
    \* A MerkleTree object used directly, outside any registry.
    mtKeys,        \* the publicKeys argument its caller holds
    mt,            \* the MerkleTree object
    mtPc,          \* "new", "built", "failed" (buildTree threw), "proved", "verified",
                   \* "tampered", "rejudged" (the changed proof verified), "counted"
    mtProof,       \* the proof last returned by generateMembershipProof
    mtVerdict,     \* the result last returned by verifyMembershipProof
    mtBuilds,      \* buildTree calls made on mt so far
    mtAsk,         \* position in mtKeys of the key the proof was asked for
    mtTamper,      \* what the caller changed in mtProof: "none", "path", "root"
    mtElsewhere,   \* the same verifyMembershipProof call made on other objects
    mtStats        \* what getTreeStats and getLeafNodes last returned

treeVars == <<mtKeys, mt, mtPc, mtProof, mtVerdict, mtBuilds, mtAsk, mtTamper,
              mtElsewhere, mtStats>>

VARIABLES
    \* The ZKProofSystem object.
    merkleTree,    \* this.merkleTree: a reference into trees, 0 is null
    userKeys,      \* this.userKeys: userIndex -> {publicKey, userId, userIndex}
    currentProof,  \* this.currentProof
    \* The MerkleTree objects created by initializeSystem, by reference.
    trees,
    \* The calls in progress, each suspended in an await, one per operation.
    initCall, genCall, verCall,
    inits,         \* initializeSystem calls that passed the range check so far
    now,           \* Date.now()
    \* What the callers see.
    held,          \* the bundle last returned by generateZKProof, kept by its caller
    heldStable,    \* whether no initializeSystem call was in progress when that
                   \* generateZKProof call was made
    sinceReset,    \* whether reset was called and initializeSystem not since
    event          \* the step just taken: the operation, how it ended, and for a
                   \* verifyZKProof call that ended what it delivered

sysVars == <<merkleTree, userKeys, currentProof, trees>>

callVars == <<initCall, genCall, verCall, inits>>

outVars == <<now, held, heldStable, sinceReset, event>>

regVars == <<sysVars, callVars, outVars>>

vars == <<treeVars, regVars>>

\* null and undefined in a place that otherwise holds an object.
NoBundle == [null |-> TRUE]

Undefined == [undefined |-> TRUE]

IdleInit ==
    [pc |-> "idle", id |-> 0, userCount |-> 0, i |-> 0, publicKeys |-> <<>>,
     frame |-> DoneFrame]

IdleGen ==
    [pc |-> "idle", userIndex |-> 0, tree |-> 0, publicKey |-> JSNull,
     stable |-> FALSE, membershipProof |-> Undefined, randomness |-> JSNull,
     commitment |-> Undefined, challenge |-> JSNull]

IdleVer == [pc |-> "idle", proof |-> NoBundle, genuine |-> FALSE]

NoReport == [isValid |-> FALSE, verificationSteps |-> <<>>,
             summary |-> [totalSteps |-> 0, passedSteps |-> 0]]

\* What a verifyZKProof call delivered: kind is "error" (the promise was rejected)
\* or "report"; about its argument: present (not null), wellFormed (commitment,
\* response and membershipProof are objects), genuine (it is the bundle a
\* generateZKProof call returned, unmodified, and that call was made with no
\* initializeSystem call in progress); hadTree: this.merkleTree was not null when
\* the call was made; age: Date.now() of step 4 minus proof.timestamp.
VerOut(kind, present, wellFormed, genuine, hadTree, age, report) ==
    [kind |-> kind, present |-> present, wellFormed |-> wellFormed,
     genuine |-> genuine, hadTree |-> hadTree, age |-> age, report |-> report]

NoVerOut == VerOut("none", FALSE, FALSE, FALSE, FALSE, 0, NoReport)

\* A step of an operation other than the end of a verifyZKProof call.
Event(op, out) == [op |-> op, out |-> out, ver |-> NoVerOut]

\* A step of initializeSystem(userCount) that starts or rejects the call.
InitEvent(out, userCount) ==
    [op |-> "initializeSystem", out |-> out, ver |-> NoVerOut, userCount |-> userCount]

\* The return of initializeSystem: the object of lines 42-51 without users, the
\* display list.
InitReturned(userCount, t) ==
    [op |-> "initializeSystem.resume", out |-> "returned", ver |-> NoVerOut,
     result |-> [userCount |-> userCount,
                 rootHash  |-> getRootHash(t),
                 treeStats |-> getTreeStats(t)]]

\* The end of a verifyZKProof call.
VerEvent(op, out, ver) == [op |-> op, out |-> out, ver |-> ver]

\* The state after new ZKProofSystem().
RegInit ==
    /\ merkleTree = 0
    /\ userKeys = <<>>
    /\ currentProof = NoBundle
    /\ trees = [e \in 1..MaxInits |-> NewMerkleTree]
    /\ initCall = IdleInit
    /\ genCall = IdleGen
    /\ verCall = IdleVer
    /\ inits = 0
    /\ now = 0
    /\ held = NoBundle
    /\ heldStable = FALSE
    /\ sinceReset = FALSE
    /\ event = Event("new", "returned")

\* A proof object that has not been produced yet.
NoProof == [leafHash |-> JSNull, leafIndex |-> -1, path |-> <<>>, rootHash |-> JSNull]

KeyPool == {PublicKeyOf(n) : n \in 1..NumKeys}

\* The key sequences a caller may pass to buildTree, the empty one included.
KeySeqs == UNION {[1..n -> KeyPool] : n \in 0..MaxKeys}

\* --------------------------------------------- MerkleTree used on its own
\* No call of verifyMembershipProof on another object, no statistics read yet.
NoElsewhere == [unbuilt |-> FALSE, other |-> FALSE, intact |-> TRUE]

NoStats == [stats |-> getTreeStats(NewMerkleTree), leafNodes |-> <<>>]

\* The caller's variables before any call.
TreeFresh ==
    /\ mt = NewMerkleTree
    /\ mtPc = "new"
    /\ mtProof = NoProof
    /\ mtVerdict = FALSE
    /\ mtBuilds = 0
    /\ mtAsk = 0
    /\ mtTamper = "none"
    /\ mtElsewhere = NoElsewhere
    /\ mtStats = NoStats

TreeInit ==
    /\ mtKeys \in KeySeqs
    /\ TreeFresh
    /\ RegInit

\* await tree.buildTree(mtKeys), nothing interleaved.
TreeBuild ==
    /\ mtPc = "new"
    /\ IF Len(mtKeys) = 0
       THEN mt' = mt /\ mtPc' = "failed"
       ELSE mt' = buildTree(mt, mtKeys) /\ mtPc' = "built"
    /\ mtBuilds' = mtBuilds + 1
    /\ UNCHANGED <<mtKeys, mtProof, mtVerdict, mtAsk, mtTamper, mtElsewhere, mtStats,
                   regVars>>

\* The sequences a caller passes to a further buildTree call on the same object:
\* the same one, and the same one without its first key.
RebuildSeqs(keys) == {keys} \cup (IF Len(keys) > 1 THEN {Tail(keys)} ELSE {})

\* await tree.buildTree(keys) on an object that was built before.
TreeRebuild ==
    /\ mtPc = "built"
    /\ mtBuilds < MaxBuilds
    /\ \E keys \in RebuildSeqs(mtKeys) :
          /\ mt' = buildTree(mt, keys)
          /\ mtKeys' = keys
    /\ mtBuilds' = mtBuilds + 1
    /\ UNCHANGED <<mtPc, mtProof, mtVerdict, mtAsk, mtTamper, mtElsewhere, mtStats,
                   regVars>>

\* tree.getTreeStats() and tree.getLeafNodes().
TreeStats ==
    /\ mtPc \in {"new", "failed", "built"}
    /\ mtStats' = [stats |-> getTreeStats(mt), leafNodes |-> getLeafNodes(mt)]
    /\ mtPc' = "counted"
    /\ UNCHANGED <<mtKeys, mt, mtProof, mtVerdict, mtBuilds, mtAsk, mtTamper,
                   mtElsewhere, regVars>>

\* await tree.generateMembershipProof(mtKeys[i]) on the built tree.
TreeProve ==
    /\ mtPc \in {"built", "verified"}
    /\ \E i \in 1..Len(mtKeys) :
          /\ FindLeaf(mt, generateUserId(mtKeys[i])) # 0
          /\ mtProof' = generateMembershipProof(mt, mtKeys[i])
          /\ mtAsk' = i
    /\ mtPc' = "proved"
    /\ mtElsewhere' = NoElsewhere
    /\ UNCHANGED <<mtKeys, mt, mtVerdict, mtBuilds, mtTamper, mtStats, regVars>>

\* The caller replaces the sibling hash of one path step of a proof that verified.
TreeTamperPath ==
    /\ mtPc = "verified" /\ mtVerdict
    /\ \E k \in 1..Len(mtProof.path), h \in {BadHash, mtProof.leafHash} :
          /\ h # mtProof.path[k].hash
          /\ mtProof' = [mtProof EXCEPT !.path[k].hash = h]
    /\ mtTamper' = "path"
    /\ mtPc' = "tampered"
    /\ mtElsewhere' = NoElsewhere
    /\ UNCHANGED <<mtKeys, mt, mtVerdict, mtBuilds, mtAsk, mtStats, regVars>>

\* The key sequences of the other trees whose root a caller puts into a proof: the
\* sequence with its last key repeated, the sequence without its first key, one
\* foreign key.
OtherTreeSeqs(keys) ==
    {Append(keys, keys[Len(keys)]), Tail(keys), <<PublicKeyOf(0)>>} \ {<<>>, keys}

\* The caller replaces rootHash of a proof that verified by the root hash of
\* another tree, built from a different key sequence.
TreeTamperRoot ==
    /\ mtPc = "verified" /\ mtVerdict
    /\ \E keys \in OtherTreeSeqs(mtKeys) :
          mtProof' = [mtProof EXCEPT
                         !.rootHash = getRootHash(buildTree(NewMerkleTree, keys))]
    /\ mtTamper' = "root"
    /\ mtPc' = "tampered"
    /\ mtElsewhere' = NoElsewhere
    /\ UNCHANGED <<mtKeys, mt, mtVerdict, mtBuilds, mtAsk, mtStats, regVars>>

\* A tree built from a key that is in no other tree.
OtherTree == buildTree(NewMerkleTree, <<PublicKeyOf(0)>>)

\* await tree.verifyMembershipProof(mtProof) on the issuing tree, and the same call
\* on an unbuilt tree and on a tree built from other keys.
TreeVerify ==
    /\ mtPc \in {"proved", "tampered"}
    /\ LET here    == verifyMembershipProofOn(mt, mtProof)
           unbuilt == verifyMembershipProofOn(NewMerkleTree, mtProof)
           other   == verifyMembershipProofOn(OtherTree, mtProof)
       IN  /\ mtVerdict' = here.result
           /\ mt' = here.tree
           /\ mtElsewhere' = [unbuilt |-> unbuilt.result,
                              other   |-> other.result,
                              intact  |-> /\ unbuilt.tree = NewMerkleTree
                                          /\ other.tree = OtherTree]
    /\ mtPc' = IF mtPc = "proved" THEN "verified" ELSE "rejudged"
    /\ UNCHANGED <<mtKeys, mtProof, mtBuilds, mtAsk, mtTamper, mtStats, regVars>>

TreeNext ==
    \/ TreeBuild
    \/ TreeRebuild
    \/ TreeStats
    \/ TreeProve
    \/ TreeTamperPath
    \/ TreeTamperRoot
    \/ TreeVerify

SpecTree == TreeInit /\ [][TreeNext]_vars

\* MerkleTree used on its own with every number of keys initializeSystem accepts,
\* and with one key: the keys are distinct and the object is built once.
WideKeySeqs == {[i \in 1..n |-> PublicKeyOf(i)] : n \in 1..MaxUserCount}

WideInit ==
    /\ mtKeys \in WideKeySeqs
    /\ TreeFresh
    /\ RegInit

WideNext ==
    \/ TreeBuild
    \/ TreeStats
    \/ TreeProve
    \/ TreeVerify

SpecWide == WideInit /\ [][WideNext]_vars

\* ------------------------------------------------- ZKProofSystem helpers
\* The value generatePublicKey returns for identity i of the e-th initialization:
\* 32 random bytes, so no two calls return the same key.
FreshKey(e, i) == PublicKeyOf(100 * e + i)

\* The r-th value generateSalt(32) may return.
Salt(r) == <<Atom("salt", r, <<>>)>>

\* The MerkleTree objects still referenced: by this.merkleTree, by a suspended
\* initializeSystem call (the tree it builds), by a suspended generateMembershipProof
\* call.  An object nothing references plays no part any more and leaves trees.
Collect(ts, mtRef, ic, gc) ==
    [e \in DOMAIN ts |-> IF e \in {mtRef, ic.id, gc.tree} THEN ts[e] ELSE NewMerkleTree]

\* A set that files identity i under i + 1.
UserKeysSetShifted(m, i, v) ==
    [j \in (DOMAIN m) \cup {i + 1} |-> IF j = i + 1 THEN v ELSE m[j]]

\* this.userKeys.set(i, v)
UserKeysSet(m, i, v) == [j \in (DOMAIN m) \cup {i} |-> IF j = i THEN v ELSE m[j]]

\* _generateCommitment resumed after its await.
generateCommitment(publicKey, randomness, t) ==
    [hash |-> sha256(Concat(publicKey, randomness)), randomness |-> randomness,
     timestamp |-> t]

generateChallenge(commitment, membershipProof) ==
    sha256(Concat(Concat(commitment.hash, membershipProof.rootHash),
                  membershipProof.leafHash))

\* A _generateResponse that hashes challenge + randomness.
generateResponseSwapped(challenge, commitment, t) ==
    LET responseData == Concat(challenge, commitment.randomness)
    IN  [hash |-> sha256(responseData), data |-> responseData, timestamp |-> t]

\* _generateResponse resumed after its await.
generateResponse(challenge, commitment, t) ==
    LET responseData == Concat(commitment.randomness, challenge)
    IN  [hash |-> sha256(responseData), data |-> responseData, timestamp |-> t]

\* A _verifyResponse that accepts any hash that is there.
verifyResponseAnyHash(proof) == proof.response.hash # JSNull

\* A _verifyResponse that also compares response.data with randomness + challenge.
verifyResponseOnData(proof) ==
    /\ Concat(proof.commitment.randomness, proof.challenge) = proof.response.data
    /\ sha256(proof.response.data) = proof.response.hash

verifyResponse(proof) ==
    sha256(Concat(proof.commitment.randomness, proof.challenge)) = proof.response.hash

\* A _verifyTimestamp that rejects a bundle aged exactly maxAge.
verifyTimestampStrict(timestamp, t) == (t - timestamp) < MaxAge

verifyTimestamp(timestamp, t) == (t - timestamp) <= MaxAge

\* One entry of verificationSteps; the step names stand for the program's
\* labels, "fault" for the entry pushed by the catch block.
VStep(name, result) == [step |-> name, result |-> result]

\* Whether the objects verifyZKProof reads properties of are there.
WellFormed(proof) ==
    /\ proof.membershipProof # Undefined
    /\ proof.commitment # Undefined
    /\ proof.response # Undefined

\* A try block that returns at the first check whose result is false.
TryBlockStopsAtFailure(proof, tree, t) ==
    IF tree = 0 \/ ~WellFormed(proof)
    THEN [steps |-> <<>>, isValid |-> TRUE, thrown |-> TRUE]
    ELSE LET all == <<VStep("membership", verifyMembershipProof(proof.membershipProof)),
                      VStep("challenge",
                            generateChallenge(proof.commitment, proof.membershipProof)
                                = proof.challenge),
                      VStep("response", verifyResponse(proof)),
                      VStep("freshness", verifyTimestamp(proof.timestamp, t))>>
             failed == {j \in 1..4 : ~all[j].result}
             last == IF failed = {} THEN 4
                     ELSE CHOOSE j \in failed : \A k \in failed : j <= k
         IN  [steps |-> SubSeq(all, 1, last), isValid |-> failed = {}, thrown |-> FALSE]

\* The try block of verifyZKProof: the entries it pushes, the flag isValid as its
\* if statements leave it, and whether the block was left by an exception (this.
\* merkleTree is null, or the bundle lacks an object whose property is read: a
\* TypeError).
TryBlock(proof, tree, t) ==
    IF tree = 0 \/ proof.membershipProof = Undefined
    THEN [steps |-> <<>>, isValid |-> TRUE, thrown |-> TRUE]
    ELSE LET membershipValid == verifyMembershipProof(proof.membershipProof)
             s1 == <<VStep("membership", membershipValid)>>
             v1 == IF ~membershipValid THEN FALSE ELSE TRUE
         IN  IF proof.commitment = Undefined
             THEN [steps |-> s1, isValid |-> v1, thrown |-> TRUE]
             ELSE LET expectedChallenge ==
                          generateChallenge(proof.commitment, proof.membershipProof)
                      challengeValid == expectedChallenge = proof.challenge
                      s2 == Append(s1, VStep("challenge", challengeValid))
                      v2 == IF ~challengeValid THEN FALSE ELSE v1
                  IN  IF proof.response = Undefined
                      THEN [steps |-> s2, isValid |-> v2, thrown |-> TRUE]
                      ELSE LET responseValid == verifyResponse(proof)
                               s3 == Append(s2, VStep("response", responseValid))
                               v3 == IF ~responseValid THEN FALSE ELSE v2
                               timestampValid == verifyTimestamp(proof.timestamp, t)
                               s4 == Append(s3, VStep("freshness", timestampValid))
                               v4 == IF ~timestampValid THEN FALSE ELSE v3
                           IN  [steps |-> s4, isValid |-> v4, thrown |-> FALSE]

\* The object verifyZKProof builds after the try block and its catch block.
VerifyReport(proof, tree, t) ==
    LET try   == TryBlock(proof, tree, t)
        steps == IF try.thrown THEN Append(try.steps, VStep("fault", FALSE))
                 ELSE try.steps
    IN  [isValid |-> IF try.thrown THEN FALSE ELSE try.isValid,
         verificationSteps |-> steps,
         summary |-> [totalSteps  |-> Len(steps),
                      passedSteps |-> Cardinality({j \in 1..Len(steps) :
                                                      steps[j].result})]]

\* A verifyZKProof without the catch block: the exception rejects the call.
verifyZKProofNoCatch(proof, tree, t) ==
    IF proof = NoBundle
    THEN [kind |-> "error", out |-> "InvalidArgument", report |-> NoReport]
    ELSE IF TryBlock(proof, tree, t).thrown
    THEN [kind |-> "error", out |-> "TypeError", report |-> NoReport]
    ELSE [kind |-> "report", out |-> "returned", report |-> VerifyReport(proof, tree, t)]

\* What a call verifyZKProof(proof) delivers with this.merkleTree = tree and
\* Date.now() = t at step 4: the rejection for a null argument, a report otherwise.
verifyZKProof(proof, tree, t) ==
    IF proof = NoBundle
    THEN [kind |-> "error", out |-> "InvalidArgument", report |-> NoReport]
    ELSE [kind |-> "report", out |-> "returned", report |-> VerifyReport(proof, tree, t)]

\* The properties of a bundle that are written by generateZKProof and its helpers
\* but appear in no expression of verifyZKProof, _generateChallenge,
\* _verifyResponse, _verifyTimestamp or verifyMembershipProof.
UnreadFields ==
    {"commitment.timestamp", "response.data", "response.timestamp", "userIndex",
     "membershipProof.leafIndex", "path.level"}

\* Bundle b with the properties named in F overwritten by a caller: the numbers by
\* -1, response.data by another string.
Relabelled(b, F) ==
    [b EXCEPT
       !.commitment.timestamp = IF "commitment.timestamp" \in F THEN -1 ELSE @,
       !.response.data = IF "response.data" \in F THEN BadHash ELSE @,
       !.response.timestamp = IF "response.timestamp" \in F THEN -1 ELSE @,
       !.userIndex = IF "userIndex" \in F THEN -1 ELSE @,
       !.membershipProof.leafIndex =
           IF "membershipProof.leafIndex" \in F THEN -1 ELSE @,
       !.membershipProof.path =
           IF "path.level" \in F
           THEN [k \in 1..Len(@) |-> [@[k] EXCEPT !.level = -1]]
           ELSE @]

\* The arguments a caller holding bundle b may pass to verifyZKProof: null, b, b
\* with one hash replaced, b with one of its objects missing, b with every
\* property the verification does not read overwritten.
VerifyInputs(b) ==
    IF b = NoBundle THEN {NoBundle}
    ELSE {NoBundle, b,
          [b EXCEPT !.response.hash = BadHash],
          [b EXCEPT !.challenge = BadHash],
          [b EXCEPT !.membershipProof.rootHash = BadHash],
          [b EXCEPT !.membershipProof = Undefined],
          [b EXCEPT !.commitment = Undefined],
          [b EXCEPT !.response = Undefined],
          Relabelled(b, UnreadFields)}

\* The values of userCount a caller passes to initializeSystem.
UserCounts == {MinUserCount - 1, MaxUserCount + 1} \cup (MinUserCount..MaxUsers)

\* The values of userIndex a caller passes to generateZKProof.
UserIndexes == 0..MaxUsers

\* The values Date.now() takes: they put a bundle 1 ms before, at and 1 ms after
\* the end of its validity.
TimePoints == {0, 1, MaxAge, MaxAge + 1}

\* getSystemStatus().initialized
Initialized == merkleTree # 0

\* ------------------------------------------------ ZKProofSystem operations
\* initializeSystem(userCount) up to its first await (line 28), or to its throw.
InitializeSystem(userCount) ==
    /\ initCall.pc = "idle"
    /\ IF userCount < MinUserCount \/ userCount > MaxUserCount
       THEN /\ event' = InitEvent("RangeError", userCount)
            /\ UNCHANGED <<userKeys, initCall, inits>>
       ELSE /\ userKeys' = <<>>
            /\ inits' = inits + 1
            /\ initCall' = [IdleInit EXCEPT !.pc = "keys", !.id = inits + 1,
                                            !.userCount = userCount]
            /\ event' = InitEvent("suspended", userCount)
    /\ sinceReset' = FALSE
    /\ UNCHANGED <<merkleTree, currentProof, trees, genCall, verCall, now, held,
                   heldStable, treeVars>>

\* initializeSystem resumed after await generateUserId(publicKey) for identity i:
\* it records the identity and goes on to the next one or, after the last, creates
\* the tree and runs buildTree up to its first await.
InitKeyStep ==
    /\ initCall.pc = "keys"
    /\ LET publicKey == FreshKey(initCall.id, initCall.i)
           keys == Append(initCall.publicKeys, publicKey)
           s    == BuildStart(NewMerkleTree, keys)
       IN  /\ userKeys' = UserKeysSet(userKeys, initCall.i,
                                      [publicKey |-> publicKey,
                                       userId    |-> generateUserId(publicKey),
                                       userIndex |-> initCall.i])
           /\ IF initCall.i + 1 < initCall.userCount
              THEN /\ initCall' = [initCall EXCEPT !.i = @ + 1, !.publicKeys = keys]
                   /\ UNCHANGED <<merkleTree, trees>>
              ELSE /\ merkleTree' = initCall.id
                   /\ initCall' = [initCall EXCEPT !.pc = "build", !.publicKeys = keys,
                                                   !.frame = s.frame]
                   /\ trees' = Collect([trees EXCEPT ![initCall.id] = s.tree],
                                       merkleTree', initCall', genCall)
    /\ event' = Event("initializeSystem.resume", "suspended")
    /\ UNCHANGED <<currentProof, genCall, verCall, inits, now, held, heldStable,
                   sinceReset, treeVars>>

\* initializeSystem resumed inside buildTree; when the build is done it reads
\* this.merkleTree again for the snapshot it returns (lines 42-51).
InitBuildStep ==
    /\ initCall.pc = "build"
    /\ LET s == BuildStep(trees[initCall.id], initCall.frame)
       IN  /\ IF s.frame.pc = "done"
              THEN /\ initCall' = IdleInit
                   /\ event' = IF merkleTree = 0
                               THEN Event("initializeSystem.resume", "TypeError")
                               ELSE InitReturned(initCall.userCount,
                                                 IF merkleTree = initCall.id
                                                 THEN s.tree ELSE trees[merkleTree])
              ELSE /\ initCall' = [initCall EXCEPT !.frame = s.frame]
                   /\ event' = Event("initializeSystem.resume", "suspended")
           /\ trees' = Collect([trees EXCEPT ![initCall.id] = s.tree],
                               merkleTree, initCall', genCall)
    /\ UNCHANGED <<merkleTree, userKeys, currentProof, genCall, verCall, inits, now,
                   held, heldStable, sinceReset, treeVars>>

\* A throw of generateZKProof that first drops the last bundle.
GenerateThrowsClearing(error) ==
    /\ event' = Event("generateZKProof", error)
    /\ currentProof' = NoBundle
    /\ UNCHANGED <<genCall, merkleTree, userKeys, trees>>

\* A throw of generateZKProof before its first await (lines 61 and 66).
GenerateThrows(error) ==
    /\ event' = Event("generateZKProof", error)
    /\ UNCHANGED <<genCall, sysVars>>

\* generateZKProof(userIndex) up to the await inside generateMembershipProof
\* (line 93), or to its throw.
GenerateZKProof(userIndex) ==
    /\ genCall.pc = "idle"
    /\ IF merkleTree = 0
       THEN GenerateThrows("StateError")
       ELSE IF userIndex \notin DOMAIN userKeys
       THEN GenerateThrows("NotFound")
       ELSE /\ genCall' = [IdleGen EXCEPT !.pc = "membership",
                                          !.userIndex = userIndex,
                                          !.tree = merkleTree,
                                          !.publicKey = userKeys[userIndex].publicKey,
                                          !.stable = (initCall.pc = "idle")]
            /\ event' = Event("generateZKProof", "suspended")
            /\ UNCHANGED sysVars
    /\ UNCHANGED <<initCall, verCall, inits, now, held, heldStable, sinceReset,
                   treeVars>>

\* generateMembershipProof resumed: the leaf lookup, the walk, and then
\* _generateCommitment up to its await.
GenMembershipStep ==
    /\ genCall.pc = "membership"
    /\ LET t == trees[genCall.tree]
       IN  IF FindLeaf(t, generateUserId(genCall.publicKey)) = 0
           THEN /\ genCall' = IdleGen
                /\ event' = Event("generateZKProof.resume", "NotInTree")
           ELSE /\ \E r \in 1..NumSalts :
                      genCall' = [genCall EXCEPT
                          !.pc = "commitment",
                          !.tree = 0,
                          !.membershipProof = generateMembershipProof(t, genCall.publicKey),
                          !.randomness = Salt(r)]
                /\ event' = Event("generateZKProof.resume", "suspended")
    /\ trees' = Collect(trees, merkleTree, initCall, genCall')
    /\ UNCHANGED <<merkleTree, userKeys, currentProof, initCall, verCall, inits, now,
                   held, heldStable, sinceReset, treeVars>>

\* _generateCommitment resumed (it reads the clock), then _generateChallenge, whose
\* await resumes reading the locals of the call alone, and _generateResponse up to
\* its await.
GenCommitmentStep ==
    /\ genCall.pc = "commitment"
    /\ LET commitment == generateCommitment(genCall.publicKey, genCall.randomness, now)
       IN  genCall' = [genCall EXCEPT
               !.pc = "response",
               !.commitment = commitment,
               !.challenge = generateChallenge(commitment, genCall.membershipProof)]
    /\ event' = Event("generateZKProof.resume", "suspended")
    /\ UNCHANGED <<sysVars, initCall, verCall, inits, now, held, heldStable,
                   sinceReset, treeVars>>

\* _generateResponse resumed; generateZKProof stores the bundle and returns it.
GenResponseStep ==
    /\ genCall.pc = "response"
    /\ LET bundle == [commitment |-> genCall.commitment,
                      challenge  |-> genCall.challenge,
                      response   |-> generateResponse(genCall.challenge,
                                                      genCall.commitment, now),
                      membershipProof |-> genCall.membershipProof,
                      timestamp  |-> now,
                      userIndex  |-> genCall.userIndex]
       IN  /\ currentProof' = bundle
           /\ held' = bundle
    /\ heldStable' = genCall.stable
    /\ genCall' = IdleGen
    /\ event' = Event("generateZKProof.resume", "returned")
    /\ UNCHANGED <<merkleTree, userKeys, trees, initCall, verCall, inits, now,
                   sinceReset, treeVars>>

\* The arguments of VerOut that describe the argument of the call.
VerDelivered(proof, genuine, tree, t) ==
    LET r == verifyZKProof(proof, tree, t)
    IN  VerEvent(IF tree = 0 \/ proof = NoBundle THEN "verifyZKProof"
                 ELSE "verifyZKProof.resume",
                 r.out,
                 VerOut(r.kind, proof # NoBundle,
                        IF proof = NoBundle THEN FALSE ELSE WellFormed(proof),
                        genuine, tree # 0,
                        IF proof = NoBundle THEN 0 ELSE t - proof.timestamp,
                        r.report))

\* verifyZKProof(proof) up to its first await or, when it meets none, to its end:
\* a null argument rejects the call, a null this.merkleTree is a TypeError at line
\* 169, which the catch block turns into a report.
VerifyZKProof(proof) ==
    /\ verCall.pc = "idle"
    /\ LET genuine == proof # NoBundle /\ proof = held /\ heldStable
       IN  IF proof = NoBundle \/ merkleTree = 0
           THEN /\ event' = VerDelivered(proof, genuine, merkleTree, now)
                /\ UNCHANGED verCall
           ELSE /\ verCall' = [pc |-> "checking", proof |-> proof, genuine |-> genuine]
                /\ event' = Event("verifyZKProof", "suspended")
    /\ UNCHANGED <<sysVars, initCall, genCall, inits, now, held, heldStable,
                   sinceReset, treeVars>>

\* verifyZKProof resumed after the hashes it awaits (they read the bundle alone):
\* the remaining entries, step 4 with the clock as it is now, and the report.
VerifyStep ==
    /\ verCall.pc = "checking"
    /\ event' = VerDelivered(verCall.proof, verCall.genuine, 1, now)
    /\ verCall' = IdleVer
    /\ UNCHANGED <<sysVars, initCall, genCall, inits, now, held, heldStable,
                   sinceReset, treeVars>>

\* A reset that leaves this.currentProof as it is.
ResetEffectKeepsProof ==
    /\ merkleTree' = 0
    /\ userKeys' = <<>>
    /\ currentProof' = currentProof

\* reset(): three assignments with no await between them.
ResetEffect ==
    /\ merkleTree' = 0
    /\ userKeys' = <<>>
    /\ currentProof' = NoBundle

Reset ==
    /\ ResetEffect
    /\ trees' = Collect(trees, merkleTree', initCall, genCall)
    /\ sinceReset' = TRUE
    /\ event' = Event("reset", "returned")
    /\ UNCHANGED <<callVars, now, held, heldStable, treeVars>>

\* Time passes.
Tick(t) ==
    /\ t > now
    /\ now' = t
    /\ event' = Event("tick", "returned")
    /\ UNCHANGED <<sysVars, callVars, held, heldStable, sinceReset, treeVars>>

\* The registry with its operations interleaved at their awaits, one call of each
\* operation in progress at a time, for the smallest accepted userCount and within
\* one reading of the clock.
ConcUserCounts == {MinUserCount - 1, MinUserCount, MaxUserCount + 1}

ConcUserIndexes == 0..MinUserCount

Next ==
    \/ \E userCount \in ConcUserCounts :
          inits < MaxInits /\ InitializeSystem(userCount)
    \/ InitKeyStep
    \/ InitBuildStep
    \/ \E userIndex \in ConcUserIndexes : GenerateZKProof(userIndex)
    \/ GenMembershipStep
    \/ GenCommitmentStep
    \/ GenResponseStep
    \/ \E proof \in {NoBundle, held} : VerifyZKProof(proof)
    \/ VerifyStep
    \/ Reset

Init ==
    /\ RegInit
    /\ mtKeys = <<>>
    /\ TreeFresh

Spec == Init /\ [][Next]_vars

\* The registry used serially: a call is made when no call is in progress, and the
\* clock advances at any moment.
NoCall == initCall.pc = "idle" /\ genCall.pc = "idle" /\ verCall.pc = "idle"

SerialNext ==
    \/ \E userCount \in UserCounts :
          NoCall /\ inits < MaxInits /\ InitializeSystem(userCount)
    \/ InitKeyStep
    \/ InitBuildStep
    \/ \E userIndex \in UserIndexes : NoCall /\ GenerateZKProof(userIndex)
    \/ GenMembershipStep
    \/ GenCommitmentStep
    \/ GenResponseStep
    \/ \E proof \in VerifyInputs(held) : NoCall /\ VerifyZKProof(proof)
    \/ VerifyStep
    \/ NoCall /\ Reset
    \/ \E t \in TimePoints : Tick(t)

SpecSerial == Init /\ [][SerialNext]_vars

\* ------------------------------------------------------------------ claims
\* C1: every proof generateMembershipProof returns for a key of the sequence the
\* tree was built from is accepted by verifyMembershipProof.
RoundTrip == mtPc = "verified" => mtVerdict = TRUE

\* The report of the verifyZKProof call that has just ended.
Report == event.ver.report

\* The labels of the entries of a report, in order.
StepNames(r) == [j \in 1..Len(r.verificationSteps) |-> r.verificationSteps[j].step]

FourChecks == <<"membership", "challenge", "response", "freshness">>

\* isValid is the AND of the listed results and passedSteps counts the true ones.
Tallied(r) ==
    /\ r.isValid = (\A j \in 1..Len(r.verificationSteps) : r.verificationSteps[j].result)
    /\ r.summary.passedSteps =
           Cardinality({j \in 1..Len(r.verificationSteps) : r.verificationSteps[j].result})

\* C2: a bundle generateZKProof returned on an initialized registry with no
\* initializeSystem call in progress, passed unmodified to verifyZKProof and reaching
\* step 4 at most MaxAge ms after its timestamp, is reported valid with the four
\* checks all passed.
Completeness ==
    (event.ver.kind = "report" /\ event.ver.genuine /\ event.ver.hadTree
        /\ event.ver.age <= MaxAge)
    => /\ Report.isValid
       /\ Report.verificationSteps = [j \in 1..4 |-> VStep(FourChecks[j], TRUE)]

\* A bundle for the last identity of a three-identity registry (its leaf is the one
\* buildTree pairs with itself) verified exactly MaxAge ms after its timestamp.
CompletenessWitness ==
    /\ event.ver.kind = "report" /\ event.ver.genuine /\ event.ver.hadTree
    /\ event.ver.age = MaxAge
    /\ held.userIndex = 2
    /\ Report.isValid

\* C3 as stated: every report for a present bundle lists exactly the four checks in
\* order, isValid is the AND of their results and passedSteps counts the true ones.
AlwaysFourChecks ==
    event.ver.kind = "report" => (StepNames(Report) = FourChecks /\ Tallied(Report))

\* C3: every report lists the checks in their fixed order up to the first one that
\* raises a fault, then one failed entry for the fault; no check raises a fault
\* when the bundle has its objects and the registry holds a tree, so all four are
\* then listed whatever their results; isValid is the AND of the listed results and
\* passedSteps counts the true ones.
ChecksUntilFault ==
    event.ver.kind = "report" =>
        LET names == StepNames(Report)
            n     == Len(names)
        IN  /\ \/ names = FourChecks
               \/ /\ n \in 1..4
                  /\ names = SubSeq(FourChecks, 1, n - 1) \o <<"fault">>
            /\ (event.ver.wellFormed /\ event.ver.hadTree) => names = FourChecks
            /\ Tallied(Report)

\* A report whose first check failed and whose third check passed.
ChecksUntilFaultWitness ==
    /\ event.ver.kind = "report"
    /\ StepNames(Report) = FourChecks
    /\ ~Report.verificationSteps[1].result
    /\ Report.verificationSteps[3].result
    /\ ~Report.isValid

\* C4: a verifyZKProof call is rejected exactly when its argument is null; for any
\* other argument it returns a report, and when a check raised a fault (an object of
\* the bundle is missing, or the registry holds no tree) the report ends with one
\* failed entry for the fault, holds no other such entry, and is invalid.
FaultContained ==
    event.op \in {"verifyZKProof", "verifyZKProof.resume"} /\ event.out # "suspended"
    => /\ (event.ver.kind = "error") <=> ~event.ver.present
       /\ event.ver.present => event.ver.kind = "report"
       /\ (event.ver.present /\ ~(event.ver.wellFormed /\ event.ver.hadTree)) =>
              LET st == Report.verificationSteps
              IN  /\ Len(st) >= 1
                  /\ st[Len(st)] = VStep("fault", FALSE)
                  /\ \A j \in 1..(Len(st) - 1) : st[j].step # "fault"
                  /\ ~Report.isValid
                  /\ Report.summary.totalSteps = Len(st)

\* A report for a bundle without its response object, on an initialized registry:
\* two checks ran and passed, the third raised the fault.
FaultContainedWitness ==
    /\ event.ver.kind = "report" /\ event.ver.hadTree /\ ~event.ver.wellFormed
    /\ StepNames(Report) = <<"membership", "challenge", "fault">>
    /\ Report.summary.passedSteps = 2

\* C5: a generateZKProof call made while the registry holds no tree throws the state
\* error, one made with an index that is not in the identity map throws the
\* not-found error, a call goes on only with a tree and a known index, and a call
\* that throws leaves the tree, the identity map and the last bundle as they were.
GenerateFailsClean ==
    [][event'.op = "generateZKProof" =>
          /\ (merkleTree = 0) <=> (event'.out = "StateError")
          /\ event'.out \in {"StateError", "NotFound", "suspended"}
          /\ event'.out = "suspended" => genCall'.userIndex \in DOMAIN userKeys
          /\ event'.out # "suspended" =>
                 UNCHANGED <<merkleTree, userKeys, currentProof, trees>>]_vars

\* A call with an unknown index on a registry that has a last bundle to keep.
GenerateFailsCleanWitness ==
    /\ event.op = "generateZKProof" /\ event.out = "NotFound"
    /\ currentProof # NoBundle
    /\ merkleTree # 0

\* C6 as stated: a generateZKProof call made while the root of the registry's tree
\* is not computed throws the state error, and no bundle returned carries a null
\* root hash.
GenerateRequiresBuiltTree ==
    [][/\ (event'.op = "generateZKProof"
              /\ (merkleTree = 0 \/ trees[merkleTree].root = 0))
          => event'.out = "StateError"
       /\ held' # NoBundle => held'.membershipProof.rootHash # JSNull]_vars

\* The keys the tree was built from: the data of its leaf nodes, by index.
TreeKeys(t) ==
    LET leafRefs == {j \in 1..Len(t.heap) : t.heap[j].isLeaf}
    IN  [i \in 0..(Cardinality(leafRefs) - 1) |->
            t.heap[CHOOSE j \in leafRefs : t.heap[j].data.index = i].data.publicKey]

\* C7 as stated: whenever no initializeSystem call is in progress the registry holds
\* a tree iff the identity map is not empty, and then the map has one entry per key
\* the tree was built from, index i holding the i-th key.
RegistryConsistent ==
    initCall.pc = "idle" =>
        /\ (merkleTree # 0) <=> (DOMAIN userKeys # {})
        /\ merkleTree # 0 =>
               LET keys == TreeKeys(trees[merkleTree])
               IN  /\ DOMAIN userKeys = DOMAIN keys
                   /\ \A i \in DOMAIN keys : userKeys[i].publicKey = keys[i]

\* Nothing of the registry is set.
Cleared == merkleTree = 0 /\ DOMAIN userKeys = {} /\ currentProof = NoBundle

\* C8: in the state a reset call leaves, the tree, the identity map and the last
\* bundle are all cleared: reset has no state of its own in which another operation
\* could run.
ResetAtomic == event.op = "reset" => Cleared

\* A reset that had a tree to clear, made between two steps of a generateZKProof
\* call.
ResetAtomicWitness ==
    /\ event.op = "reset"
    /\ genCall.pc = "response"
    /\ Cleared

\* C9 as stated: from the return of reset until initializeSystem is next called the
\* registry has no tree, an empty identity map and no last bundle.
StaysReset == sinceReset => Cleared

\* C10 as stated: a verifyZKProof call with a bundle, made while the registry holds
\* no tree, throws the state error.
VerifyRequiresInit ==
    [][(event'.op = "verifyZKProof" /\ event'.ver.present /\ merkleTree = 0)
          => event'.out = "StateError"]_vars

\* C11: an initializeSystem call throws the range error exactly when its argument
\* is below 2 or above 32, and the throw leaves the tree, the identity map and the
\* last bundle as they were; a call that got past the check ends by returning, the
\* identity map then holds exactly the indices 0..userCount-1, the registry's tree
\* is the tree buildTree makes of their keys in index order, and the returned
\* rootHash is the root of that tree.
InitializeContract ==
    [][/\ event'.op = "initializeSystem" =>
             /\ (event'.out = "RangeError")
                    <=> (event'.userCount < 2 \/ event'.userCount > 32)
             /\ event'.out = "RangeError" =>
                    UNCHANGED <<merkleTree, userKeys, currentProof, trees>>
       /\ (event'.op = "initializeSystem.resume" /\ event'.out # "suspended") =>
             /\ event'.out = "returned"
             /\ initCall.userCount \in 2..32
             /\ DOMAIN userKeys' = 0..(initCall.userCount - 1)
             /\ merkleTree' # 0
             /\ LET keys == [i \in 1..initCall.userCount |-> userKeys'[i - 1].publicKey]
                    t    == trees'[merkleTree']
                IN  /\ t = buildTree(NewMerkleTree, keys)
                    /\ t.root # 0
                    /\ event'.result.rootHash = t.heap[t.root].hash
                    /\ event'.result.userCount = initCall.userCount]_vars

\* The second initialization of a registry, with three identities, has returned.
InitializeContractWitness ==
    /\ event.op = "initializeSystem.resume" /\ event.out = "returned"
    /\ event.result.userCount = 3
    /\ inits = 2
    /\ DOMAIN userKeys = 0..2

\* C12: whenever verifyZKProof reports the freshness check, its result is true
\* exactly when the clock read by that check minus the timestamp of the bundle is at
\* most 300000 ms.
FreshnessBoundary ==
    event.ver.kind = "report" =>
        \A j \in 1..Len(Report.verificationSteps) :
            Report.verificationSteps[j].step = "freshness" =>
                (Report.verificationSteps[j].result <=> (event.ver.age <= 300000))

\* An unmodified bundle verified 300001 ms after its timestamp: the first three
\* checks pass, the freshness check fails.
FreshnessBoundaryWitness ==
    /\ event.ver.kind = "report" /\ event.ver.genuine
    /\ event.ver.age = 300001
    /\ Report.verificationSteps =
           <<VStep("membership", TRUE), VStep("challenge", TRUE),
             VStep("response", TRUE), VStep("freshness", FALSE)>>

\* C13: when the bundle a generateZKProof call returned would verify as valid, the
\* same bundle with only response.hash replaced by another value gets a report in
\* which the membership and challenge checks are true, the response check is false,
\* the freshness check is listed, and the verdict is invalid.
StepIndependence ==
    [][(/\ event'.op = "verifyZKProof.resume"
        /\ held # NoBundle
        /\ WellFormed(verCall.proof)
        /\ verCall.proof # held
        /\ verCall.proof = [held EXCEPT !.response.hash = verCall.proof.response.hash]
        /\ VerifyReport(held, 1, now).isValid)
       => /\ StepNames(event'.ver.report) = FourChecks
          /\ event'.ver.report.verificationSteps[1].result
          /\ event'.ver.report.verificationSteps[2].result
          /\ ~event'.ver.report.verificationSteps[3].result
          /\ ~event'.ver.report.isValid]_vars

\* The report for a bundle that is not the one returned: only its response check
\* failed.
StepIndependenceWitness ==
    /\ event.ver.kind = "report" /\ ~event.ver.genuine /\ event.ver.wellFormed
    /\ [j \in 1..4 |-> Report.verificationSteps[j].result] = <<TRUE, TRUE, FALSE, TRUE>>
    /\ ~Report.isValid

\* C14 as stated: a proof that verified is rejected after the sibling hash of one
\* of its path steps was replaced by another value, and after its rootHash was
\* replaced by the root hash of a tree built from a different key sequence.
TamperRejected == mtPc = "rejudged" => ~mtVerdict

\* C14: a proof that verified is rejected after the sibling hash of one of its path
\* steps was replaced by another value, and after its rootHash was replaced by the
\* root hash of another built tree when that root hash differs from the proof's own.
TamperSensitive ==
    mtPc = "rejudged" =>
        ((mtTamper = "path" \/ mtProof.rootHash # getRootHash(mt)) => ~mtVerdict)

\* A proof with two path steps, carrying the different root hash of another tree,
\* was rejected.
TamperSensitiveWitness ==
    /\ mtPc = "rejudged" /\ mtTamper = "root"
    /\ mtProof.rootHash # getRootHash(mt)
    /\ Len(mtProof.path) = 2
    /\ ~mtVerdict

\* C15: the root hash of an object after buildTree(mtKeys), whatever was built on
\* that object before, is the root hash a new object gets from buildTree(mtKeys).
Deterministic ==
    mtPc = "built" =>
        /\ getRootHash(mt) # JSNull
        /\ getRootHash(mt) = getRootHash(buildTree(NewMerkleTree, mtKeys))

\* An object built a second time, from three keys.
DeterministicWitness ==
    /\ mtPc = "built"
    /\ mtBuilds = 2
    /\ Len(mtKeys) = 3

\* A proof reduced to the parts verifyMembershipProof is to depend on.
Stripped(proof) ==
    [proof EXCEPT !.leafIndex = -1,
                  !.path = [k \in 1..Len(proof.path) |-> [@[k] EXCEPT !.level = 0]]]

\* C16: a verifyMembershipProof call returns the same value on the issuing tree, on
\* an unbuilt tree and on a tree built from other keys, the value it returns for
\* the proof without its leafIndex and level entries, and it leaves each of these
\* objects as it was.
VerifyPure ==
    [][(mtPc \in {"proved", "tampered"} /\ mtPc' \in {"verified", "rejudged"}) =>
          /\ mt' = mt
          /\ mtElsewhere'.intact
          /\ mtElsewhere'.unbuilt = mtVerdict'
          /\ mtElsewhere'.other = mtVerdict'
          /\ mtVerdict' = verifyMembershipProof(Stripped(mtProof))]_vars

\* A proof with two path steps accepted on all three objects.
VerifyPureWitness ==
    /\ mtPc = "verified"
    /\ Len(mtProof.path) = 2
    /\ mtVerdict /\ mtElsewhere.unbuilt /\ mtElsewhere.other

\* The least k with 2^k >= n.
RECURSIVE CeilLog2(_)
CeilLog2(n) == IF n <= 1 THEN 0 ELSE 1 + CeilLog2((n + 1) \div 2)

\* C17: the treeHeight getTreeStats reports for a tree built from n keys is 1 for
\* n = 1 and ceil(log2(n)) + 1 otherwise, which is k + 1 for n = 2^k.
HeightFormula ==
    (mtPc = "counted" /\ mtBuilds = 1 /\ Len(mtKeys) >= 1) =>
        mtStats.stats.treeHeight =
            (IF Len(mtKeys) = 1 THEN 1 ELSE CeilLog2(Len(mtKeys)) + 1)

\* The statistics of a tree built from 17 keys: height 6.
HeightFormulaWitness ==
    /\ mtPc = "counted" /\ mtBuilds = 1
    /\ Len(mtKeys) = 17
    /\ mtStats.stats.treeHeight = 6

\* The reference Merkle root of a level of hashes: an odd level gets its last hash
\* once more, neighbours are hashed left before right, until one hash is left.
RECURSIVE RefRoot(_)
RefRoot(level) ==
    IF Len(level) = 1 THEN level[1]
    ELSE LET padded == IF Len(level) % 2 = 1 THEN Append(level, level[Len(level)])
                       ELSE level
         IN  RefRoot([j \in 1..(Len(padded) \div 2) |->
                         <<Atom("sha256", 0, padded[2 * j - 1] \o padded[2 * j])>>])

RefLeaves(keys) == [i \in 1..Len(keys) |-> <<Atom("sha256", 0, keys[i])>>]

\* C18: the root of a built tree is the reference Merkle root of the hashes of its
\* keys; for one key it is the hash of the key, for three keys it is
\* H(H(L0 L1) H(L2 L2)).
ReferenceRoot ==
    mtPc = "built" =>
        LET L == RefLeaves(mtKeys)
            H(x) == <<Atom("sha256", 0, x)>>
        IN  /\ getRootHash(mt) = RefRoot(L)
            /\ Len(mtKeys) = 1 => getRootHash(mt) = L[1]
            /\ Len(mtKeys) = 3 =>
                   getRootHash(mt) = H(H(L[1] \o L[2]) \o H(L[3] \o L[3]))

\* A tree built from five keys, whose first two levels are both padded.
ReferenceRootWitness ==
    /\ mtPc = "built"
    /\ Len(mtKeys) = 5
    /\ getRootHash(mt) = RefRoot(RefLeaves(mtKeys))

\* The reference path from position j (counted from 0) of a level to the root.
RECURSIVE RefPath(_, _, _)
RefPath(level, j, l) ==
    IF Len(level) = 1 THEN <<>>
    ELSE LET padded == IF Len(level) % 2 = 1 THEN Append(level, level[Len(level)])
                       ELSE level
             next   == [k \in 1..(Len(padded) \div 2) |->
                           <<Atom("sha256", 0, padded[2 * k - 1] \o padded[2 * k])>>]
         IN  <<[hash   |-> IF j % 2 = 0 THEN padded[j + 2] ELSE padded[j],
                isLeft |-> j % 2 = 1,
                level  |-> l]>>
             \o RefPath(next, j \div 2, l + 1)

\* C19 as stated: the proof generateMembershipProof returns for the key at index i
\* of a built tree has the hash of the key, leafIndex i, the root of the tree, and
\* the reference path from leaf i to the root.
PathEncoding ==
    mtPc = "proved" =>
        mtProof = [leafHash  |-> RefLeaves(mtKeys)[mtAsk],
                   leafIndex |-> mtAsk - 1,
                   path      |-> RefPath(RefLeaves(mtKeys), mtAsk - 1, 0),
                   rootHash  |-> RefRoot(RefLeaves(mtKeys))]

\* C20 as stated: after buildTree of n keys the leaf sequence has n entries, entry
\* i being the leaf of key i with index i, and getTreeStats().leafNodes and the
\* length of getLeafNodes() are n.
LeafSequencePreserved ==
    (mtPc = "counted" /\ mtBuilds >= 1 /\ Len(mtKeys) >= 1) =>
        /\ Len(mt.leaves) = Len(mtKeys)
        /\ mtStats.stats.leafNodes = Len(mtKeys)
        /\ mtStats.leafNodes =
               [i \in 1..Len(mtKeys) |-> [hash      |-> RefLeaves(mtKeys)[i],
                                          publicKey |-> mtKeys[i],
                                          index     |-> i - 1]]

\* C21 as stated: the walk of generateMembershipProof goes from the leaf to the
\* root, so the path of every proof has one step less than the tree has levels.
WalkReachesRoot ==
    mtPc = "proved" =>
        Len(mtProof.path) = calculateHeight(mt, mt.root) - 1

\* The nodes of t reachable from node, as references into t.heap.
RECURSIVE Reachable(_, _)
Reachable(t, node) ==
    IF node = 0 THEN {}
    ELSE {node} \cup Reachable(t, t.heap[node].left) \cup Reachable(t, t.heap[node].right)

\* The nodes a build from n keys creates: n leaves, then one node per pair of each
\* level after padding, up to the root.
RECURSIVE RefNodeCount(_)
RefNodeCount(n) == IF n <= 1 THEN n ELSE n + RefNodeCount((n + 1) \div 2)

\* C22 as stated: after buildTree every node reachable from the root is the entry
\* of this.nodes under its own hash, and the totalNodes that getTreeStats reports
\* is the number of nodes the build created.
IndexCoversBuild ==
    (mtPc = "counted" /\ mtBuilds >= 1 /\ Len(mtKeys) >= 1) =>
        /\ \A node \in Reachable(mt, mt.root) :
              \E j \in 1..Len(mt.nodes) :
                  mt.nodes[j] = [key |-> mt.heap[node].hash, val |-> node]
        /\ mtStats.stats.totalNodes = RefNodeCount(Len(mtKeys))

\* C23 as stated: whenever the registry holds a last bundle and no initialization
\* is under way, the bundle was generated from the registry's current tree: its
\* membershipProof.rootHash is the root hash of this.merkleTree.
LastBundleCurrent ==
    (currentProof # NoBundle /\ initCall.pc = "idle") =>
        /\ merkleTree # 0
        /\ currentProof.membershipProof.rootHash = getRootHash(trees[merkleTree])

\* C24: the report of verifyZKProof for a bundle is the report, at the same time,
\* for that bundle with any of commitment.timestamp, response.data,
\* response.timestamp, userIndex, membershipProof.leafIndex and the path steps'
\* level overwritten; and the bundle generateZKProof returned, with all of them
\* overwritten, gets the report the returned bundle gets.
ReportReadsOnly ==
    [][(event'.op = "verifyZKProof.resume" /\ WellFormed(verCall.proof)) =>
          /\ \A F \in SUBSET UnreadFields :
                VerifyReport(Relabelled(verCall.proof, F), 1, now) = event'.ver.report
          /\ (held # NoBundle /\ verCall.proof = Relabelled(held, UnreadFields)) =>
                event'.ver.report = VerifyReport(held, 1, now)]_vars

\* The report for a bundle that is not the one returned and whose every check
\* passed: it differs from the returned bundle in unread properties alone.
ReportReadsOnlyWitness ==
    /\ event.op = "verifyZKProof.resume"
    /\ event.ver.kind = "report" /\ ~event.ver.genuine /\ event.ver.wellFormed
    /\ heldStable
    /\ Report.isValid
    /\ Report.summary.passedSteps = 4

====
